---- MODULE Spec2Model ----
(***************************************************************************)
(* A model of app.py: the phone normalizers, the RoutingIndex built by     *)
(* load_data, the customer aggregation and the three HTTP routes.          *)
(*                                                                         *)
(* Python strings on which the code works character by character (phone    *)
(* values) are sequences of one-character strings; strings the code only   *)
(* copies and compares (names, cities) are TLA+ strings.  An Optional      *)
(* value is a sequence of length at most one: None is << >>.               *)
(***************************************************************************)
EXTENDS Integers, Sequences, FiniteSets, TLC

VARIABLES
    leadFile,     \* rows of SDR_FILE_CLEANED.xlsx as read_excel would give them
    orderFile,    \* rows of Zomato_File.xlsx
    cityCol,      \* whether the order sheet has a city_name column
    pc,           \* "start" before the module-level load, "serving" after it
    loadFailed,   \* whether the module-level load_data() raised
    SDR_DF,       \* lead table with its __mobile_norm__ column
    ZOMATO_DF,    \* order table with its __mobile_norm__ column
    ALL_MOBILES,  \* the RoutingIndex
    request,      \* the request being answered
    response,     \* the answer to it
    probe         \* a raw value and what each normalizer makes of it

vars == <<leadFile, orderFile, cityCol, pc, loadFailed, SDR_DF, ZOMATO_DF,
          ALL_MOBILES, request, response, probe>>

(***************************************************************************)
(* Bounds of the model.                                                    *)
(***************************************************************************)
MaxRun == 11
MaxLead == 2
MaxOrders == 2
MaxViewOrders == 3

(***************************************************************************)
(* Literals of the code.                                                   *)
(***************************************************************************)
CC_MIN_LEN == 12
KEEP_DIGITS == 10
PLUS91_LEN == 10

None == << >>
Some(x) == <<x>>

(***************************************************************************)
(* Characters and strings.                                                 *)
(***************************************************************************)
Digit == {"0", "1", "2", "3", "4", "5", "6", "7", "8", "9"}

\* Code point of a character of the model's alphabet (Python compares
\* strings by code point).
Code(c) ==
    CASE c = " " -> 32
      [] c = "+" -> 43
      [] c = "-" -> 45
      [] c = "." -> 46
      [] c = "0" -> 48
      [] c = "1" -> 49
      [] c = "2" -> 50
      [] c = "3" -> 51
      [] c = "4" -> 52
      [] c = "5" -> 53
      [] c = "6" -> 54
      [] c = "7" -> 55
      [] c = "8" -> 56
      [] c = "9" -> 57
      [] c = "a" -> 97
      [] c = "n" -> 110

Min(a, b) == IF a < b THEN a ELSE b

\* s[:n]
Take(s, n) == SubSeq(s, 1, Min(n, Len(s)))

\* s[n:]
Drop(s, n) == SubSeq(s, n + 1, Len(s))

\* s.startswith('91')
startswith91(s) == Len(s) >= 2 /\ s[1] = "9" /\ s[2] = "1"

\* s.lstrip('0')
RECURSIVE lstrip0(_)
lstrip0(s) == IF s # << >> /\ s[1] = "0" THEN lstrip0(Tail(s)) ELSE s

\* s.lstrip() and s.strip() for the one whitespace character of the alphabet
RECURSIVE lstripWs(_)
lstripWs(s) == IF s # << >> /\ s[1] = " " THEN lstripWs(Tail(s)) ELSE s

RECURSIVE rstripWs(_)
rstripWs(s) ==
    IF s # << >> /\ s[Len(s)] = " " THEN rstripWs(SubSeq(s, 1, Len(s) - 1)) ELSE s

strip(s) == rstripWs(lstripWs(s))

\* re.sub(r'\D', '', s)
re_sub_nondigit(s) == SelectSeq(s, LAMBDA c : c \in Digit)

\* Python's str < str
RECURSIVE StrLess(_, _)
StrLess(a, b) ==
    IF b = << >> THEN FALSE
    ELSE IF a = << >> THEN TRUE
    ELSE IF a[1] # b[1] THEN Code(a[1]) < Code(b[1])
    ELSE StrLess(Tail(a), Tail(b))

(***************************************************************************)
(* Raw cell values.  kind "nan" is a missing cell (NaN), kind "num" a      *)
(* numeric cell with sign neg, integer part s (decimal, no leading zeros)  *)
(* and fraction digits frac (<< >> for an int cell), kind "str" a text     *)
(* cell holding s.  Integer parts stay below 2^53, where float() is exact. *)
(***************************************************************************)
NaN == [kind |-> "nan", neg |-> FALSE, s |-> << >>, frac |-> << >>]
Str(s) == [kind |-> "str", neg |-> FALSE, s |-> s, frac |-> << >>]
Num(neg, s, frac) == [kind |-> "num", neg |-> neg, s |-> s, frac |-> frac]

\* pd.isna(val)
isna(val) == val.kind = "nan"

\* str(val)
str(val) ==
    CASE val.kind = "nan" -> <<"n", "a", "n">>
      [] val.kind = "str" -> val.s
      [] val.kind = "num" ->
            (IF val.neg THEN <<"-">> ELSE << >>) \o val.s
            \o (IF val.frac = << >> THEN << >> ELSE <<".">> \o val.frac)

\* Whether float(text) accepts the text: optional surrounding whitespace, an
\* optional sign, then digits with at most one decimal point and at least
\* one digit (the alphabet has no exponent letter and no underscore).
FloatBody(t) == IF t # << >> /\ t[1] \in {"-", "+"} THEN Tail(t) ELSE t

float_parses(text) ==
    LET u == FloatBody(strip(text))
    IN  /\ u # << >>
        /\ \A i \in 1..Len(u) : u[i] \in Digit \cup {"."}
        /\ Cardinality({i \in 1..Len(u) : u[i] = "."}) <= 1
        /\ \E i \in 1..Len(u) : u[i] \in Digit

\* The digits of text before its decimal point
RECURSIVE IntPart(_)
IntPart(u) ==
    IF u = << >> \/ u[1] = "." THEN << >> ELSE <<u[1]>> \o IntPart(Tail(u))

\* Whether int(float(val)) returns: float() takes a number or a parseable
\* text, and int() rejects NaN.
int_float_ok(val) ==
    CASE val.kind = "nan" -> FALSE
      [] val.kind = "num" -> TRUE
      [] val.kind = "str" -> float_parses(val.s)

\* str(int(float(val))) where it returns: truncation toward zero, printed
\* in decimal with a minus sign for a negative integer.
str_int_float(val) ==
    LET t    == strip(val.s)
        neg  == IF val.kind = "num" THEN val.neg ELSE t # << >> /\ t[1] = "-"
        mag  == IF val.kind = "num" THEN lstrip0(val.s)
                ELSE lstrip0(IntPart(FloatBody(t)))
    IN  IF mag = << >> THEN <<"0">>
        ELSE (IF neg THEN <<"-">> ELSE << >>) \o mag

(***************************************************************************)
(* The normalizers.                                                        *)
(***************************************************************************)
\* norm with step 4 applied in the order context too
norm_step4_always(val, is_sdr) ==
    IF isna(val) THEN << >>
    ELSE LET s0 == IF int_float_ok(val) THEN str_int_float(val)
                   ELSE re_sub_nondigit(str(val))
             s1 == Take(IF startswith91(s0) /\ Len(s0) >= CC_MIN_LEN
                        THEN Drop(s0, 2) ELSE s0,
                        KEEP_DIGITS)
         IN  lstrip0(s1)

\* normalize_mobile_series.norm, with is_sdr of the enclosing call
norm(val, is_sdr) ==
    IF isna(val) THEN << >>
    ELSE LET s0 == IF int_float_ok(val) THEN str_int_float(val)
                   ELSE re_sub_nondigit(str(val))
             s1 == IF is_sdr
                   THEN Take(IF startswith91(s0) /\ Len(s0) >= CC_MIN_LEN
                             THEN Drop(s0, 2) ELSE s0,
                             KEEP_DIGITS)
                   ELSE s0
         IN  lstrip0(s1)

\* series.apply(norm)
normalize_mobile_series(series, is_sdr) ==
    [i \in DOMAIN series |-> norm(series[i], is_sdr)]

\* normalize_single_mobile dropping 91 from any string of ten or more
normalize_single_mobile_short_cc(raw) ==
    LET s0 == IF int_float_ok(raw) THEN str_int_float(raw)
              ELSE re_sub_nondigit(str(raw))
        s1 == IF startswith91(s0) /\ Len(s0) >= KEEP_DIGITS THEN Drop(s0, 2) ELSE s0
        s2 == Take(s1, KEEP_DIGITS)
    IN  lstrip0(s2)

normalize_single_mobile(raw) ==
    LET s0 == IF int_float_ok(raw) THEN str_int_float(raw)
              ELSE re_sub_nondigit(str(raw))
        s1 == IF startswith91(s0) /\ Len(s0) >= CC_MIN_LEN THEN Drop(s0, 2) ELSE s0
        s2 == Take(s1, KEEP_DIGITS)
    IN  lstrip0(s2)

(***************************************************************************)
(* Table rows.  A name or city cell is missing (nan) or holds a text       *)
(* the code only converts with str() and compares.                         *)
(***************************************************************************)
Blank == [nan |-> TRUE, text |-> ""]
Text(t) == [nan |-> FALSE, text |-> t]

\* str(row.get(COL, '')) for a name or city cell: str(NaN) is 'nan'
cell_str(cell) == IF cell.nan THEN "nan" ELSE cell.text

(***************************************************************************)
(* load_data: the join and the RoutingIndex.                               *)
(***************************************************************************)
\* nonblank_set without the filter on ''
nonblank_set_keep_blank(mobiles) == {mobiles[i] : i \in DOMAIN mobiles}

\* set(mobiles[mobiles != ''])
nonblank_set(mobiles) == {mobiles[i] : i \in DOMAIN mobiles} \ {<< >>}

\* sorted with a numeric key: shorter digit strings first
RECURSIVE sorted_numeric(_)
sorted_numeric(S) ==
    IF S = {} THEN << >>
    ELSE LET m == CHOOSE x \in S : \A y \in S \ {x} :
                      Len(x) < Len(y) \/ (Len(x) = Len(y) /\ StrLess(x, y))
         IN  <<m>> \o sorted_numeric(S \ {m})

\* sorted(list(S)) for a set of strings
RECURSIVE sorted(_)
sorted(S) ==
    IF S = {} THEN << >>
    ELSE LET m == CHOOSE x \in S : \A y \in S \ {x} : StrLess(x, y)
         IN  <<m>> \o sorted(S \ {m})

\* all_numbers of load_data, from the two normalized columns
all_numbers(sdr_mobiles, zomato_mobiles) ==
    LET sdr_set      == nonblank_set(sdr_mobiles)
        zom_set      == nonblank_set(zomato_mobiles)
        intersection == sdr_set \cap zom_set
        sdr_only     == sdr_set \ zom_set
    IN  sorted(intersection) \o sorted(sdr_only)

\* The three values load_data returns for the two sheets
load_data(sdr_rows, zomato_rows) ==
    LET sdr_mobiles    == normalize_mobile_series(
                              [i \in DOMAIN sdr_rows |-> sdr_rows[i].mobile], TRUE)
        zomato_mobiles == normalize_mobile_series(
                              [i \in DOMAIN zomato_rows |-> zomato_rows[i].phone], FALSE)
    IN  [sdr_df    |-> [i \in DOMAIN sdr_rows |->
                           [mobile      |-> sdr_rows[i].mobile,
                            name        |-> sdr_rows[i].name,
                            mobile_norm |-> sdr_mobiles[i]]],
         zomato_df |-> [i \in DOMAIN zomato_rows |->
                           [phone       |-> zomato_rows[i].phone,
                            name        |-> zomato_rows[i].name,
                            city        |-> zomato_rows[i].city,
                            mobile_norm |-> zomato_mobiles[i]]],
         all_numbers |-> all_numbers(sdr_mobiles, zomato_mobiles)]

(***************************************************************************)
(* build_customer_context.  The order value, coordinates and address       *)
(* fields are copied per row by the code and are left out here.            *)
(***************************************************************************)
\* series.astype(str).value_counts().idxmax(): the most frequent value, the
\* one seen first among equally frequent ones (value_counts keeps the keys
\* in order of first occurrence and its descending sort keeps that order
\* among equal counts for the few distinct values of one customer)
value_counts_idxmax(series) ==
    LET count(v) == Cardinality({i \in DOMAIN series : series[i] = v})
        best     == CHOOSE i \in DOMAIN series :
                        /\ \A j \in DOMAIN series : count(series[j]) <= count(series[i])
                        /\ \A j \in 1..(i - 1) : count(series[j]) < count(series[i])
    IN  series[best]

build_customer_context(mobile_norm) ==
    LET sdr_matches    == SelectSeq(SDR_DF, LAMBDA r : r.mobile_norm = mobile_norm)
        zomato_matches == SelectSeq(ZOMATO_DF, LAMBDA r : r.mobile_norm = mobile_norm)
        sdr_rows       == [i \in DOMAIN sdr_matches |->
                              [name |-> cell_str(sdr_matches[i].name)]]
        orders         == [i \in DOMAIN zomato_matches |->
                              [customer_name |-> cell_str(zomato_matches[i].name)]]
        total_orders   == Len(orders)
        primary_city   == IF zomato_matches # << >> /\ cityCol
                          THEN Some(value_counts_idxmax(
                                   [i \in DOMAIN zomato_matches |->
                                       cell_str(zomato_matches[i].city)]))
                          ELSE None
        name           == IF sdr_rows # << >> THEN Some(sdr_rows[1].name)
                          ELSE IF orders # << >> THEN Some(orders[1].customer_name)
                          ELSE None
    IN  [mobile_display      |-> mobile_norm,
         mobile_with_country |-> IF Len(mobile_norm) = PLUS91_LEN
                                 THEN <<"+", "9", "1">> \o mobile_norm
                                 ELSE mobile_norm,
         customer_name       |-> name,
         sdr_rows            |-> sdr_rows,
         orders              |-> orders,
         total_orders        |-> total_orders,
         primary_city        |-> primary_city,
         is_active           |-> total_orders > 0]

(***************************************************************************)
(* The routes.  A response is its status, what it carries ("landing" for   *)
(* the static page, "customer" for the rendered template, "redirect",      *)
(* "error"), the endpoint and arguments of a redirect, and the template    *)
(* context of a rendered page.                                             *)
(***************************************************************************)
abort(code) ==
    [status |-> code, body |-> "error", location |-> "", page |-> 0,
     not_found |-> FALSE, ctx |-> None]

\* redirect(url_for(endpoint, page=page[, not_found="1"]))
redirect(endpoint, page, not_found) ==
    [status |-> 302, body |-> "redirect", location |-> endpoint, page |-> page,
     not_found |-> not_found, ctx |-> None]

\* render_template("customer.html", current_page=page, ..., **ctx)
render_template(page, ctx) ==
    [status |-> 200, body |-> "customer", location |-> "", page |-> page,
     not_found |-> FALSE, ctx |-> Some(ctx)]

static_page ==
    [status |-> 200, body |-> "landing", location |-> "", page |-> 0,
     not_found |-> FALSE, ctx |-> None]

NoResponse ==
    [status |-> 0, body |-> "none", location |-> "", page |-> 0,
     not_found |-> FALSE, ctx |-> None]

NoRequest == [route |-> "none", page |-> 0, mobile |-> None, landing |-> FALSE]

\* ALL_MOBILES.index(x) + 1, or 0 where index raises ValueError
list_index(x) ==
    IF \E i \in DOMAIN ALL_MOBILES : ALL_MOBILES[i] = x
    THEN CHOOSE i \in DOMAIN ALL_MOBILES :
             /\ ALL_MOBILES[i] = x
             /\ \A j \in 1..(i - 1) : ALL_MOBILES[j] # x
    ELSE 0

\* index(): landing tells whether index.html can be read
index_response(landing) ==
    IF landing THEN static_page
    ELSE IF ALL_MOBILES = << >> THEN abort(500)
    ELSE redirect("customer_page", 1, FALSE)

\* search() redirecting to the list position instead of the page number
search_response_zero_based(field) ==
    IF ALL_MOBILES = << >> THEN abort(500)
    ELSE LET mobile_raw == strip(IF field = None THEN << >> ELSE field[1])
         IN  IF mobile_raw = << >> THEN redirect("index", 0, FALSE)
             ELSE LET mobile_norm == normalize_single_mobile(Str(mobile_raw))
                      found       == list_index(mobile_norm)
                  IN  IF found = 0 THEN redirect("customer_page", 1, TRUE)
                      ELSE redirect("customer_page", found - 1, FALSE)

\* search(): field is the form's mobile field, None when the form has none
search_response(field) ==
    IF ALL_MOBILES = << >> THEN abort(500)
    ELSE LET mobile_raw == strip(IF field = None THEN << >> ELSE field[1])
         IN  IF mobile_raw = << >> THEN redirect("index", 0, FALSE)
             ELSE LET mobile_norm == normalize_single_mobile(Str(mobile_raw))
                      found       == list_index(mobile_norm)
                  IN  IF found = 0 THEN redirect("customer_page", 1, TRUE)
                      ELSE redirect("customer_page", found, FALSE)

\* customer_page() rejecting the last page
customer_page_response_off_by_one(page) ==
    IF ALL_MOBILES = << >> THEN abort(500)
    ELSE LET total_pages == Len(ALL_MOBILES)
         IN  IF page < 1 \/ page >= total_pages THEN abort(404)
             ELSE render_template(page, build_customer_context(ALL_MOBILES[page]))

\* customer_page() without the check for an empty index
customer_page_response_no_guard(page) ==
    LET total_pages == Len(ALL_MOBILES)
    IN  IF page < 1 \/ page > total_pages THEN abort(404)
        ELSE render_template(page, build_customer_context(ALL_MOBILES[page]))

\* customer_page(page)
customer_page_response(page) ==
    IF ALL_MOBILES = << >> THEN abort(500)
    ELSE LET total_pages == Len(ALL_MOBILES)
         IN  IF page < 1 \/ page > total_pages THEN abort(404)
             ELSE render_template(page, build_customer_context(ALL_MOBILES[page]))

(***************************************************************************)
(* Inputs.                                                                 *)
(***************************************************************************)
SeqsUpTo(S, n) == UNION {[1..k -> S] : k \in 0..n}

Run(d, n) == [i \in 1..n |-> d]

Nine1s == Run("1", 9)

\* Phone cells of the lead sheet: a 12-digit number with country code, two
\* short numbers whose string order differs from their numeric order, a
\* negative number and an empty cell.
LeadPhones ==
    {NaN, Str(<<"9", "1", "9">> \o Nine1s), Str(<<"1", "0">>), Str(<<"9">>),
     Num(TRUE, <<"7">>, << >>)}

\* Phone cells of the order sheet: the same customer as a float cell and as a
\* text with country code, a short number, text without digits, an empty cell.
OrderPhones ==
    {NaN, Num(FALSE, <<"9">> \o Nine1s, <<"0">>), Str(<<"9", "1", "9">> \o Nine1s),
     Str(<<"9">>), Str(<<"-">>)}

LeadRows == [mobile : LeadPhones, name : {Text("Ann")}]
OrderRows == [phone : OrderPhones, name : {Text("Raj")}, city : {Text("Agra")}]

ViewLeadRows == [mobile : {Str(<<"9">>)}, name : {Blank, Text("Ann"), Text("Bob")}]
ViewOrderRows(city) ==
    [phone : {Str(<<"9">>), Str(<<"1", "0">>)}, name : {Text("Raj")},
     city : IF city THEN {Blank, Text("Agra"), Text("Pune")} ELSE {Blank}]

\* What a client may send as the mobile field
SearchInputs ==
    {None, Some(<< >>), Some(<<" ">>), Some(<<"a">>), Some(<<"8">>),
     Some(<<" ", "9", " ">>), Some(<<"0", "1", "0">>), Some(<<"-", "7">>),
     Some(<<"9", "1", "9">> \o Nine1s), Some(<<"9">> \o Nine1s)}
    \cup {Some(ALL_MOBILES[i]) : i \in DOMAIN ALL_MOBILES}

Pages == 0..(MaxLead + 1)

(***************************************************************************)
(* The program.                                                            *)
(***************************************************************************)
NoProbe == [done |-> FALSE, val |-> NaN, lead |-> << >>, order |-> << >>,
            single |-> << >>]

InitState ==
    /\ pc = "start"
    /\ loadFailed = FALSE
    /\ SDR_DF = << >>
    /\ ZOMATO_DF = << >>
    /\ ALL_MOBILES = << >>
    /\ request = NoRequest
    /\ response = NoResponse
    /\ probe = NoProbe

Init ==
    /\ leadFile \in SeqsUpTo(LeadRows, MaxLead)
    /\ orderFile \in SeqsUpTo(OrderRows, MaxOrders)
    /\ cityCol = TRUE
    /\ InitState

InitView ==
    /\ leadFile \in SeqsUpTo(ViewLeadRows, MaxLead)
    /\ cityCol \in BOOLEAN
    /\ orderFile \in SeqsUpTo(ViewOrderRows(cityCol), MaxViewOrders)
    /\ InitState

\* The module-level try: load_data() returns
LoadOk ==
    /\ pc = "start"
    /\ LET r == load_data(leadFile, orderFile)
       IN  /\ SDR_DF' = r.sdr_df
           /\ ZOMATO_DF' = r.zomato_df
           /\ ALL_MOBILES' = r.all_numbers
    /\ pc' = "serving"
    /\ UNCHANGED <<leadFile, orderFile, cityCol, loadFailed, request, response, probe>>

\* The module-level except: load_data() raised (a sheet is missing or
\* cannot be parsed, or lacks its phone column)
LoadFail ==
    /\ pc = "start"
    /\ SDR_DF' = << >>
    /\ ZOMATO_DF' = << >>
    /\ ALL_MOBILES' = << >>
    /\ loadFailed' = TRUE
    /\ pc' = "serving"
    /\ UNCHANGED <<leadFile, orderFile, cityCol, request, response, probe>>

\* One request is answered at a time: a handler runs when no response is
\* pending, and the server then sends what it returned.  No handler writes
\* the tables or the index.
Idle == pc = "serving" /\ response = NoResponse

\* GET /
index ==
    /\ Idle
    /\ \E landing \in BOOLEAN :
          /\ request' = [route |-> "index", page |-> 0, mobile |-> None,
                         landing |-> landing]
          /\ response' = index_response(landing)
    /\ UNCHANGED <<leadFile, orderFile, cityCol, pc, loadFailed, SDR_DF, ZOMATO_DF,
                   ALL_MOBILES, probe>>

\* POST /search
search ==
    /\ Idle
    /\ \E field \in SearchInputs :
          /\ request' = [route |-> "search", page |-> 0, mobile |-> field,
                         landing |-> FALSE]
          /\ response' = search_response(field)
    /\ UNCHANGED <<leadFile, orderFile, cityCol, pc, loadFailed, SDR_DF, ZOMATO_DF,
                   ALL_MOBILES, probe>>

\* GET /customer/<int:page>: the converter takes non-negative integers only
customer_page ==
    /\ Idle
    /\ \E page \in Pages :
          /\ request' = [route |-> "customer_page", page |-> page, mobile |-> None,
                         landing |-> FALSE]
          /\ response' = customer_page_response(page)
    /\ UNCHANGED <<leadFile, orderFile, cityCol, pc, loadFailed, SDR_DF, ZOMATO_DF,
                   ALL_MOBILES, probe>>

\* The server sends the pending response and waits for the next request
send_response ==
    /\ pc = "serving"
    /\ response # NoResponse
    /\ request' = NoRequest
    /\ response' = NoResponse
    /\ UNCHANGED <<leadFile, orderFile, cityCol, pc, loadFailed, SDR_DF, ZOMATO_DF,
                   ALL_MOBILES, probe>>

Next == LoadOk \/ LoadFail \/ index \/ search \/ customer_page \/ send_response

Spec == Init /\ [][Next]_vars

SpecView == InitView /\ [][Next]_vars

(***************************************************************************)
(* The normalizers on their own: one raw value, given to all three.        *)
(***************************************************************************)
ProbePrefixes ==
    {<< >>, <<"-">>, <<"+">>, <<" ">>, <<"a">>, <<"0">>, <<"0", "0">>,
     <<"9", "1">>, <<"0", "9", "1">>, <<"9", "1", "0">>, <<"9", "1", "-">>,
     <<"+", "9", "1", " ">>}

ProbeSuffixes == {<< >>, <<".", "0">>, <<".", "5">>, <<".">>, <<" ">>, <<"a">>}

ProbeTexts ==
    {pre \o Run(d, n) \o suf :
        pre \in ProbePrefixes, d \in {"0", "1", "9"}, n \in 0..MaxRun,
        suf \in ProbeSuffixes}

\* Integer parts of numeric cells: decimal, no leading zero
ProbeIntParts ==
    {<<"0">>} \cup
    {pre \o Run(d, n) :
        pre \in {<<"1">>, <<"9">>, <<"9", "1">>, <<"9", "1", "0">>},
        d \in {"0", "1", "9"}, n \in 0..MaxRun}

ProbeValues ==
    {NaN} \cup {Str(s) : s \in ProbeTexts}
    \cup {Num(neg, s, frac) :
            neg \in BOOLEAN, s \in ProbeIntParts, frac \in {<< >>, <<"0">>, <<"5">>}}

InitNorm ==
    /\ leadFile = << >>
    /\ orderFile = << >>
    /\ cityCol = TRUE
    /\ InitState

normalize ==
    /\ ~probe.done
    /\ \E val \in ProbeValues :
          probe' = [done   |-> TRUE,
                    val    |-> val,
                    lead   |-> normalize_mobile_series(<<val>>, TRUE)[1],
                    order  |-> normalize_mobile_series(<<val>>, FALSE)[1],
                    single |-> normalize_single_mobile(val)]
    /\ UNCHANGED <<leadFile, orderFile, cityCol, pc, loadFailed, SDR_DF, ZOMATO_DF,
                   ALL_MOBILES, request, response>>

NextNorm == normalize

SpecNorm == InitNorm /\ [][NextNorm]_vars

(***************************************************************************)
(* Properties.                                                             *)
(***************************************************************************)
Loaded == pc = "serving" /\ ~loadFailed

Range(f) == {f[i] : i \in DOMAIN f}

\* The non-empty canonical phones of the two loaded tables
LeadCanon == {SDR_DF[i].mobile_norm : i \in DOMAIN SDR_DF} \ {<< >>}
OrderCanon == {ZOMATO_DF[i].mobile_norm : i \in DOMAIN ZOMATO_DF} \ {<< >>}

\* f is strictly increasing in string order from position a to position b
Ascending(f, a, b) ==
    \A i \in a..b : \A j \in a..b : i < j => StrLess(f[i], f[j])

\* C1: after a successful load the RoutingIndex is the phones found in both
\* tables in ascending string order, followed by the phones found in the
\* lead table only in ascending string order.
C1_IndexIsSortedJoin ==
    Loaded =>
        LET k == Cardinality(LeadCanon \cap OrderCanon)
            n == Len(ALL_MOBILES)
        IN  /\ n = Cardinality(LeadCanon)
            /\ {ALL_MOBILES[i] : i \in 1..k} = LeadCanon \cap OrderCanon
            /\ {ALL_MOBILES[i] : i \in (k + 1)..n} = LeadCanon \ OrderCanon
            /\ Ascending(ALL_MOBILES, 1, k)
            /\ Ascending(ALL_MOBILES, k + 1, n)

\* A phone with orders stands before a lead-only phone that is longer and,
\* as a string, smaller
C1_Witness ==
    /\ Loaded
    /\ \E i \in DOMAIN ALL_MOBILES : \E j \in DOMAIN ALL_MOBILES :
          /\ i < j
          /\ ALL_MOBILES[i] \in OrderCanon
          /\ ALL_MOBILES[j] \notin OrderCanon
          /\ StrLess(ALL_MOBILES[j], ALL_MOBILES[i])
          /\ Len(ALL_MOBILES[j]) > Len(ALL_MOBILES[i])

\* C2: the RoutingIndex never holds a phone twice and never holds the empty
\* string.
C2_IndexDistinctNonBlank ==
    /\ \A i \in DOMAIN ALL_MOBILES : ALL_MOBILES[i] # << >>
    /\ \A i \in DOMAIN ALL_MOBILES : \A j \in DOMAIN ALL_MOBILES :
          i # j => ALL_MOBILES[i] # ALL_MOBILES[j]

\* Two lead rows with one phone, and a blank phone in the order table
C2_Witness ==
    /\ Loaded
    /\ Len(ALL_MOBILES) = 1
    /\ Len(SDR_DF) = 2
    /\ SDR_DF[1].mobile_norm = SDR_DF[2].mobile_norm
    /\ \E i \in DOMAIN ZOMATO_DF : ZOMATO_DF[i].mobile_norm = << >>

\* The template context of the pending response is the view of phone m
IsViewOf(m) ==
    /\ response.ctx # None
    /\ LET c == response.ctx[1]
       IN  /\ c.mobile_display = m
           /\ Len(c.sdr_rows) = Cardinality({i \in DOMAIN SDR_DF : SDR_DF[i].mobile_norm = m})
           /\ c.total_orders =
                  Cardinality({i \in DOMAIN ZOMATO_DF : ZOMATO_DF[i].mobile_norm = m})
           /\ c.is_active = (m \in OrderCanon)

IsBlankInput(field) ==
    field = None \/ \A i \in DOMAIN field[1] : field[1][i] = " "

\* C4: with a non-empty index POST /search redirects to the index page for a
\* blank input, to page k without the flag when the input normalizes to
\* entry k, and to page 1 with the not-found flag otherwise.
C4_SearchOutcomes ==
    (request.route = "search" /\ ALL_MOBILES # << >>) =>
        LET field == request.mobile
            canon == normalize_single_mobile(Str(field[1]))
        IN  /\ response.status = 302
            /\ IF IsBlankInput(field)
               THEN response.location = "index"
               ELSE /\ response.location = "customer_page"
                    /\ \A k \in DOMAIN ALL_MOBILES :
                          ALL_MOBILES[k] = canon =>
                              response.page = k /\ ~response.not_found
                    /\ canon \notin Range(ALL_MOBILES) =>
                          response.page = 1 /\ response.not_found

\* A phone that is in neither table is searched
C4_Witness ==
    /\ request.route = "search"
    /\ Len(ALL_MOBILES) = 2
    /\ request.mobile = Some(<<"8">>)
    /\ \A i \in DOMAIN leadFile : leadFile[i].mobile # Str(<<"8">>)
    /\ response.location = "customer_page"
    /\ response.page = 1
    /\ response.not_found

\* C5 as stated: after a failed load every response of every route is the
\* server error.
C5_Original ==
    (loadFailed /\ response # NoResponse) => response.status = 500

\* C5 amended: after a failed load the tables and the index stay empty, POST
\* /search and GET /customer/<page> always answer with the server error, and
\* GET / answers with the static landing page when index.html can be read
\* and with the server error when it cannot.
C5_FailedLoad ==
    loadFailed =>
        /\ pc = "serving"
        /\ SDR_DF = << >> /\ ZOMATO_DF = << >> /\ ALL_MOBILES = << >>
        /\ response # NoResponse =>
              IF request.route = "index" /\ request.landing
              THEN response = static_page
              ELSE response.status = 500 /\ response.body = "error"

\* A customer page is requested after a failed load
C5_Witness ==
    /\ loadFailed
    /\ leadFile # << >>
    /\ request.route = "customer_page"
    /\ request.page = 1
    /\ response.status = 500

IsCanonical(s) ==
    /\ \A i \in DOMAIN s : s[i] \in Digit
    /\ s # << >> => s[1] # "0"

\* C6: whatever the raw value, each of the three normalizers returns a
\* string of the characters 0-9 that does not start with 0.
C6_AlwaysCanonical ==
    probe.done =>
        IsCanonical(probe.lead) /\ IsCanonical(probe.order) /\ IsCanonical(probe.single)

\* Steps 2 and 3 of the specification: the digit string of a raw value
DigitString(val) ==
    IF int_float_ok(val) THEN str_int_float(val) ELSE re_sub_nondigit(str(val))

\* Step 4: drop a leading 91 of a string of 12 or more, keep 10 characters
Step4(d) ==
    LET e == IF Len(d) >= 12 /\ SubSeq(d, 1, 2) = <<"9", "1">>
             THEN SubSeq(d, 3, Len(d)) ELSE d
    IN  IF Len(e) > 10 THEN SubSeq(e, 1, 10) ELSE e

\* Step 5: what is left from the first character that is not 0
Step5(d) ==
    LET nz == {i \in DOMAIN d : d[i] # "0"}
    IN  IF nz = {} THEN << >>
        ELSE SubSeq(d, CHOOSE i \in nz : \A j \in nz : i <= j, Len(d))

\* C7: for a non-missing value the lead-context and the search normalizer
\* both apply step 4 and agree, and the order-context normalizer only
\* removes the leading zeros of the digit string.
C7_Step4Asymmetry ==
    (probe.done /\ ~isna(probe.val)) =>
        /\ probe.lead = Step5(Step4(DigitString(probe.val)))
        /\ probe.single = probe.lead
        /\ probe.order = Step5(DigitString(probe.val))

\* A text with country code: step 4 changes it in the lead context and in
\* search, and the order context keeps all its digits
C7_Witness ==
    /\ probe.done
    /\ probe.val.kind = "str"
    /\ Len(probe.order) >= 12
    /\ Len(probe.lead) = 10
    /\ probe.single = probe.lead
    /\ probe.lead = SubSeq(probe.order, 3, 12)

\* The lead and order rows of the loaded tables with canonical phone m
LeadMatches(m) == SelectSeq(SDR_DF, LAMBDA r : r.mobile_norm = m)
OrderMatches(m) == SelectSeq(ZOMATO_DF, LAMBDA r : r.mobile_norm = m)

\* The texts of the cells that are not empty, in row order
RECURSIVE Texts(_)
Texts(cells) ==
    IF cells = << >> THEN << >>
    ELSE (IF cells[1].nan THEN << >> ELSE <<cells[1].text>>) \o Texts(Tail(cells))

\* C8: the display name of a rendered view is the first non-empty name of
\* the matched lead rows if a lead row matched, else the name of the first
\* matched order, else None.
C8_DisplayName ==
    response.body = "customer" =>
        LET c     == response.ctx[1]
            leads == LeadMatches(c.mobile_display)
            ords  == OrderMatches(c.mobile_display)
            names == Texts([i \in DOMAIN leads |-> leads[i].name])
        IN  IF leads # << >>
            THEN names # << >> => c.customer_name = Some(names[1])
            ELSE IF ords # << >>
            THEN c.customer_name = Some(cell_str(ords[1].name))
            ELSE c.customer_name = None

\* The most frequent text of a non-empty sequence, the first seen on a tie
Mode(ts) ==
    LET count(v) == Cardinality({i \in DOMAIN ts : ts[i] = v})
        top      == {i \in DOMAIN ts : \A j \in DOMAIN ts : count(ts[j]) <= count(ts[i])}
    IN  ts[CHOOSE i \in top : \A j \in top : i <= j]

\* C9: the primary city of a rendered view is the most frequent non-null
\* city of the matched orders, the first seen on a tie, and None when no
\* order matched.
C9_PrimaryCity ==
    response.body = "customer" =>
        LET c      == response.ctx[1]
            ords   == OrderMatches(c.mobile_display)
            cities == Texts([i \in DOMAIN ords |-> ords[i].city])
        IN  IF ords = << >> THEN c.primary_city = None
            ELSE cities # << >> => c.primary_city = Some(Mode(cities))

====
